---- MODULE Spec2Model ----
(***************************************************************************)
(* iWashCars: booking of mobile car-wash appointments with a two-phase    *)
(* (deposit + remaining balance) Stripe payment.                          *)
(*                                                                         *)
(* The model has several specifications over one set of variables:        *)
(*   SpecBook      the booking view (form validation + save), with        *)
(*                 cancellations, one POST at a time;                     *)
(*   SpecBookRace  the same view with two POSTs in flight;                *)
(*   Spec          the payment lifecycle of one reservation: the views,   *)
(*                 the StripePaymentService calls and the webhook, each   *)
(*                 request split at its database read, its gateway call   *)
(*                 and its database write, run by concurrent workers;     *)
(*   SpecIntent    create_payment_intent step by step;                    *)
(*   SpecAdmin     the admin actions beside a customer and the webhook;   *)
(*   SpecWebhook   the webhook endpoint with its signature check;         *)
(*   SpecCatalog   saves of reservations while the catalog is edited;     *)
(*   SpecRemind    the reminder sweeps against a clock, with variants     *)
(*                 for overlapping sweeps, status changes and admin       *)
(*                 actions, and SpecSchedule for the 5-minute schedule;   *)
(*   SpecOverlap   Booking.overlaps_with applied to pairs of rows.        *)
(***************************************************************************)
EXTENDS Integers, FiniteSets, Sequences, TLC

VARIABLES
  booking,    \* table main_booking: id -> row, or NoRow when the id is unused
  payment,    \* table main_payment, keyed by its one-to-one booking id
  gw,         \* what the Stripe gateway has been asked to do, per booking
  req,        \* the payment requests being served, one per request worker
  breq,       \* the booking-form POSTs being served, one per form worker
  sweep,      \* the reminder sweeps being run, one per sweeper
  now,        \* the clock, in minutes
  reminders,  \* reminders delivered, per booking
  last        \* the service call returning in this step: what it was and returned

vars == <<booking, payment, gw, req, breq, sweep, now, reminders, last>>

\* ------------------------------------------------------------------ bounds

MaxBookings     == 2   \* rows the booking table may hold
MaxGatewayCalls == 3   \* capture/charge/refund/cancel calls made for one payment
MaxCustomers    == 1   \* gateway customers created for one reservation
MaxIntentRequests == 2 \* create_payment_intent requests that reach the gateway, per reservation

\* --------------------------------------------------------------- constants

MinutesPerDay         == 1440
SlotStep              == 30     \* forms.py: current_time += timedelta(minutes=30)
FirstSlot             == 420    \* forms.py: time(7, 0)
LastSlot              == 1260   \* forms.py: time(21, 0)
CommuteBuffer         == 30     \* views.py: end_time + timedelta(minutes=30)
STRIPE_DEPOSIT_AMOUNT == 2500   \* models.py: "$25 in cents", Payment.deposit_amount default
LeadMin               == 25     \* tasks.py: now + timedelta(minutes=25)
LeadMax               == 35     \* tasks.py: now + timedelta(minutes=35)
CommandLead           == 30     \* send_reminders.py: now + timedelta(minutes=30)
CommandSpan           == 5      \* send_reminders.py: reminder_time + timedelta(minutes=5)
SchedulePeriod        == 5      \* setup_schedule.py: 'minutes': 5

NoRow == [missing |-> TRUE]   \* no row with that key (DoesNotExist)
NULL  == "NULL"
SET   == "SET"                \* a timestamp column that has been stamped

BookingIds == 1..MaxBookings

\* The catalog: the services of migration 0015 that differ in duration/price.
\* price is in cents: Service.price is a Decimal with two places, so
\* int(price * 100) is exact.
Services == [basic   |-> [price |-> 5000,  duration_minutes |-> 30],
             premium |-> [price |-> 10000, duration_minutes |-> 60],
             deluxe  |-> [price |-> 15000, duration_minutes |-> 90]]

ServiceIds == DOMAIN Services

\* Service.get_end_time: datetime.combine(today, start) + duration, then .time(),
\* which drops the date: an end past midnight wraps.
get_end_time(service, start_time) ==
  (start_time + Services[service].duration_minutes) % MinutesPerDay

\* BookingForm.__init__: the choices of booking_time, 07:00 to 21:00 in 30-minute steps.
time_choices ==
  {FirstSlot + SlotStep * k : k \in 0..((LastSlot - FirstSlot) \div SlotStep)}

\* What a POST may carry in the model: two dates, two of the services, three
\* adjacent grid choices and one start time that is not a choice.
InputDates    == {1, 2}
InputServices == {"basic", "premium"}
InputTimes    == {600, 615, 630, 660}

\* ------------------------------------------------------------ booking rows

\* Booking.save on a new instance (status, is_confirmed, reminder_sent and the
\* cancellation columns take their field defaults).
NewBooking(service, date, time) ==
  [service             |-> service,
   booking_date        |-> date,
   booking_time        |-> time,
   booking_end_time    |-> get_end_time(service, time),
   total_price         |-> Services[service].price,
   status              |-> "pending",
   is_confirmed        |-> FALSE,
   reminder_sent       |-> FALSE,
   reminder_sent_at    |-> NULL,
   cancelled_at        |-> NULL,
   cancellation_reason |-> ""]

Stored == {b \in BookingIds : booking[b] # NoRow}

\* The id the database gives the next inserted booking.
NextId ==
  CHOOSE b \in BookingIds :
    booking[b] = NoRow /\ \A c \in BookingIds : c < b => booking[c] # NoRow

\* ------------------------------------------------------- the booking view

FormWorkers == {"f1", "f2"}

\* A form worker between requests; result and id describe its last POST.
IdleForm == [pc |-> "idle", service |-> "basic", date |-> 1, time |-> 0,
             result |-> "none", id |-> 0, raced |-> FALSE]

\* BookingForm.is_valid: booking_time is a ChoiceField over time_choices, and
\* clean() asks the address validator, whose verdict (in_area) is the outside
\* world's. Nothing in it looks at the bookings already stored.
form_is_valid(time, in_area) ==
  time \in time_choices /\ in_area

\* form.save(): Booking.save inserts the row under the next id.
InsertBooking(service, date, time) ==
  [booking EXCEPT ![NextId] = NewBooking(service, date, time)]

RoomForBooking ==
  Cardinality(Stored) + Cardinality({v \in FormWorkers : breq[v].pc = "valid"}) < MaxBookings

\* views.booking, one POST served from start to end: an invalid form is
\* re-rendered and nothing is stored, a valid one is saved.
BookingPost(w, service, date, time, in_area) ==
  /\ \A v \in FormWorkers : breq[v].pc = "idle"
  /\ RoomForBooking
  /\ IF form_is_valid(time, in_area)
     THEN /\ booking' = InsertBooking(service, date, time)
          /\ breq' = [breq EXCEPT ![w] = [IdleForm EXCEPT !.result = "stored", !.id = NextId]]
     ELSE /\ booking' = booking
          /\ breq' = [breq EXCEPT ![w] = [IdleForm EXCEPT !.result = "invalid"]]
  /\ UNCHANGED <<payment, gw, req, sweep, now, reminders, last>>

\* views.booking, POST, up to and including form.is_valid(), when requests overlap.
BookingValidate(w, service, date, time, in_area) ==
  /\ breq[w].pc = "idle"
  /\ RoomForBooking
  /\ breq' = [breq EXCEPT ![w] =
       IF form_is_valid(time, in_area)
       THEN [pc |-> "valid", service |-> service, date |-> date, time |-> time,
             result |-> "none", id |-> 0,
             raced |-> \E v \in FormWorkers \ {w} : breq[v].pc = "valid"]
       ELSE [IdleForm EXCEPT !.result = "invalid"]]
  /\ UNCHANGED <<booking, payment, gw, req, sweep, now, reminders, last>>

\* views.booking, POST, form.save() of a request whose form was valid. raced
\* records that another request was between its validation and its save at
\* some moment of this one.
BookingSave(w) ==
  /\ breq[w].pc = "valid"
  /\ booking' = InsertBooking(breq[w].service, breq[w].date, breq[w].time)
  /\ breq' = [v \in FormWorkers |->
       IF v = w THEN [IdleForm EXCEPT !.result = "stored", !.id = NextId,
                                      !.raced = breq[w].raced]
       ELSE IF breq[v].pc = "valid" THEN [breq[v] EXCEPT !.raced = TRUE]
       ELSE breq[v]]
  /\ UNCHANGED <<payment, gw, req, sweep, now, reminders, last>>

\* BookingAdmin.cancel_booking for a booking that has no Payment row
\* (Payment.DoesNotExist: "No payment to handle").
CancelUnpaidBooking(b) ==
  /\ booking[b] # NoRow
  /\ payment[b] = NoRow
  /\ booking[b].status # "cancelled"
  /\ booking' = [booking EXCEPT ![b] =
       [@ EXCEPT !.status = "cancelled", !.cancelled_at = SET,
                 !.cancellation_reason = "Cancelled by admin"]]
  /\ UNCHANGED <<payment, gw, req, breq, sweep, now, reminders, last>>

\* --------------------------------------------------------- the gateway

\* What Stripe has been asked for one reservation: customers and intents
\* created, calls made on the payment (capture, off-session charge, refund,
\* cancel) and how many of each kind it accepted, and receipt e-mails attempted.
NoGateway == [calls |-> 0, customers |-> 0, intents |-> 0, captures |-> 0,
              charges |-> 0, refunds |-> 0, refunded |-> 0, cancels |-> 0,
              receipts |-> 0, refund_receipts |-> 0]

\* ------------------------------------------------------------ payment rows

\* The record of a service call returning in the step just taken: its entry
\* point, the status it read and its result; NoRequest after any other step.
NoRequest == [op |-> "none", status |-> "none", out |-> "none"]

\* Payment.can_capture_remaining
can_capture_remaining(p) == p.status = "deposit_captured"

\* A variant of can_refund_deposit that also lets a pending Payment through.
can_refund_deposit_AlsoPending(p) ==
  p.status \in {"pending", "deposit_captured", "fully_captured"}

\* Payment.can_refund_deposit
can_refund_deposit(p) == p.status \in {"deposit_captured", "fully_captured"}

\* Payment.can_cancel_authorization
can_cancel_authorization(p) == p.status = "deposit_captured"

\* StripePaymentService.create_payment_intent: the amounts and the row of
\* Payment.objects.create. booking.service.price is read from the catalog.
NewPayment(b) ==
  LET total_amount_cents   == Services[booking[b].service].price
      deposit_amount_cents == STRIPE_DEPOSIT_AMOUNT
  IN [status                  |-> "pending",
      deposit_amount          |-> deposit_amount_cents,
      total_amount            |-> total_amount_cents,
      remaining_amount        |-> total_amount_cents - deposit_amount_cents,
      deposit_captured_at     |-> NULL,
      fully_captured_at       |-> NULL,
      refunded_at             |-> NULL,
      saved_payment_method_id |-> NULL,
      notes                   |-> ""]

\* StripePaymentService.create_payment_intent, called by the view of the same
\* name: Customer.create, PaymentIntent.create, then Payment.objects.create,
\* which the one-to-one constraint refuses (IntegrityError, answered as a 500
\* by the view) when the booking already has a Payment.
CreatePaymentIntent(b, outcome) ==
  /\ booking[b] # NoRow
  /\ gw[b].customers < MaxCustomers
  /\ \/ /\ outcome = "customer_error"
        /\ UNCHANGED <<gw, payment>>
     \/ /\ outcome = "intent_error"
        /\ gw' = [gw EXCEPT ![b].customers = @ + 1]
        /\ UNCHANGED payment
     \/ /\ outcome = "ok"
        /\ gw' = [gw EXCEPT ![b].customers = @ + 1, ![b].intents = @ + 1]
        /\ payment' = IF payment[b] = NoRow
                      THEN [payment EXCEPT ![b] = NewPayment(b)]
                      ELSE payment
  /\ last' = NoRequest
  /\ UNCHANGED <<booking, req, breq, sweep, now, reminders>>

\* ------------------------------------------------- payment requests

Workers == {"w1", "w2"}

\* The entry points that take a Payment and may call the gateway.
\*   confirm_payment           views.confirm_payment -> capture_deposit
\*   capture_remaining_amount  StripePaymentService.capture_remaining_amount
\*   refund_deposit            StripePaymentService.refund_deposit
\*   cancel_authorization      StripePaymentService.cancel_authorization
GatewayOps == {"confirm_payment", "capture_remaining_amount",
               "refund_deposit", "cancel_authorization"}

\* The webhook events the view acts on.
WebhookEvents == {"payment_intent.succeeded", "payment_intent.payment_failed"}

\* A worker between requests. In a request, pre is the Payment row as the
\* request read it, obj the object in memory, out the result it will return
\* and calls the gateway calls it has made.
IdleReq == [pc |-> "idle", op |-> "none", b |-> 1, pre |-> NoRow, obj |-> NoRow,
            out |-> "none", calls |-> 0]

Finished(r, out) ==
  [op |-> r.op, status |-> r.pre.status, out |-> out]

\* Gateway calls already promised by requests that have read their Payment.
PendingCalls(b) ==
  Cardinality({v \in Workers : req[v].pc = "loaded" /\ req[v].b = b /\ req[v].op \in GatewayOps})

\* The request reads the Payment row into memory: get_object_or_404 in
\* confirm_payment, the admin queryset or booking.payment for the others.
LoadPayment(w, b, op) ==
  /\ req[w].pc = "idle"
  /\ payment[b] # NoRow
  /\ op \in GatewayOps
  /\ gw[b].calls + PendingCalls(b) < MaxGatewayCalls
  /\ req' = [req EXCEPT ![w] = [pc |-> "loaded", op |-> op, b |-> b,
                                pre |-> payment[b], obj |-> payment[b],
                                out |-> "none", calls |-> 0]]
  /\ last' = NoRequest
  /\ UNCHANGED <<booking, payment, gw, breq, sweep, now, reminders>>

\* The precondition each service method tests before anything else.
\* capture_deposit tests none.
Precondition(op, p) ==
  CASE op = "confirm_payment"          -> TRUE
    [] op = "capture_remaining_amount" -> can_capture_remaining(p)
    [] op = "refund_deposit"           -> can_refund_deposit(p)
    [] op = "cancel_authorization"     -> can_cancel_authorization(p)

\* The early return of capture_remaining_amount, refund_deposit and
\* cancel_authorization: {'success': False, 'error': 'Cannot ...'}; nothing is
\* called and nothing is saved.
RejectRequest(w) ==
  /\ req[w].pc = "loaded"
  /\ req[w].op \in GatewayOps
  /\ ~Precondition(req[w].op, req[w].obj)
  /\ req' = [req EXCEPT ![w] = IdleReq]
  /\ last' = Finished(req[w], "precondition_error")
  /\ UNCHANGED <<booking, payment, gw, breq, sweep, now, reminders>>

\* A variant of capture_deposit that stamps the capture and leaves the status.
capture_deposit_succeeded_StampOnly(p) ==
  [p EXCEPT !.deposit_captured_at = SET, !.saved_payment_method_id = "pm"]

\* capture_deposit after PaymentIntent.capture returned
capture_deposit_succeeded(p) ==
  [p EXCEPT !.status = "deposit_captured", !.deposit_captured_at = SET,
            !.saved_payment_method_id = "pm"]

\* A variant of the failure branch that records the error and keeps the status.
capture_deposit_failed_KeepsStatus(p) ==
  [p EXCEPT !.notes = "Deposit capture failed"]

\* capture_deposit, except stripe.error.StripeError
capture_deposit_failed(p) ==
  [p EXCEPT !.status = "failed", !.notes = "Deposit capture failed"]

\* A variant of the successful capture that settles the balance to zero.
capture_remaining_succeeded_ZeroesBalance(p) ==
  [p EXCEPT !.status = "fully_captured", !.fully_captured_at = SET,
            !.remaining_amount = 0,
            !.notes = "Remaining charged successfully via saved payment method"]

\* capture_remaining_amount after a successful charge
capture_remaining_succeeded(p) ==
  [p EXCEPT !.status = "fully_captured", !.fully_captured_at = SET,
            !.notes = "Remaining charged successfully via saved payment method"]

\* A variant of the failure branch that also marks the Payment failed.
capture_remaining_failed_MarksFailed(p) ==
  [p EXCEPT !.status = "failed", !.notes = "Remaining payment failed"]

\* capture_remaining_amount, "if not charge_result['success']"
capture_remaining_failed(p) ==
  [p EXCEPT !.notes = "Remaining payment failed"]

\* A variant of refund_deposit that asks the gateway for the whole price.
refund_amount_WholeTotal(p) == p.total_amount

\* refund_deposit, the amount of Refund.create: amount=payment.deposit_amount
refund_amount(p) == p.deposit_amount

\* refund_deposit after Refund.create returned; notes holds 'Deposit
\* refunded: ' and the reason.
refund_deposit_succeeded(p) ==
  [p EXCEPT !.status = "deposit_refunded", !.refunded_at = SET,
            !.notes = "Deposit refunded"]

\* refund_deposit, except stripe.error.StripeError
refund_deposit_failed(p) ==
  [p EXCEPT !.notes = "Refund failed"]

\* cancel_authorization after PaymentIntent.cancel returned
cancel_authorization_succeeded(p) ==
  [p EXCEPT !.status = "cancelled", !.notes = "Authorization cancelled - funds released"]

\* cancel_authorization, except stripe.error.StripeError
cancel_authorization_failed(p) ==
  [p EXCEPT !.notes = "Cancel authorization failed"]

\* What the gateway may answer to each entry point's call. "error" is any
\* StripeError other than a CardError (API error, connection error, timeout).
Outcomes(op) ==
  IF op = "capture_remaining_amount"
  THEN {"ok", "card_declined", "authentication_required", "error"}
  ELSE {"ok", "error"}

\* capture_deposit: PaymentIntent.capture(amount_to_capture=deposit_amount)
CallCaptureDeposit(w, outcome) ==
  /\ req[w].pc = "loaded"
  /\ req[w].op = "confirm_payment"
  /\ outcome \in Outcomes(req[w].op)
  /\ gw' = [gw EXCEPT ![req[w].b].calls = @ + 1,
                      ![req[w].b].captures = IF outcome = "ok" THEN @ + 1 ELSE @]
  /\ req' = [req EXCEPT ![w] = [@ EXCEPT
       !.pc = "called", !.calls = @ + 1,
       !.obj = IF outcome = "ok" THEN capture_deposit_succeeded(@)
                                 ELSE capture_deposit_failed(@),
       !.out = IF outcome = "ok" THEN "success" ELSE "error"]]
  /\ last' = NoRequest
  /\ UNCHANGED <<booking, payment, breq, sweep, now, reminders>>

\* capture_remaining_amount past its precondition: charge_saved_payment_method
\* returns a failure without calling the gateway when the Payment has no saved
\* payment method, and otherwise creates a confirmed off-session PaymentIntent
\* for remaining_amount.
CallChargeRemaining(w, outcome) ==
  /\ req[w].pc = "loaded"
  /\ req[w].op = "capture_remaining_amount"
  /\ Precondition(req[w].op, req[w].obj)
  /\ outcome \in Outcomes(req[w].op)
  /\ IF req[w].obj.saved_payment_method_id = NULL
     THEN /\ outcome = "error"
          /\ gw' = gw
          /\ req' = [req EXCEPT ![w] = [@ EXCEPT
               !.pc = "called", !.obj = capture_remaining_failed(@), !.out = "error"]]
     ELSE /\ gw' = [gw EXCEPT ![req[w].b].calls = @ + 1,
                              ![req[w].b].charges = IF outcome = "ok" THEN @ + 1 ELSE @]
          /\ req' = [req EXCEPT ![w] = [@ EXCEPT
               !.pc = "called", !.calls = @ + 1,
               !.obj = IF outcome = "ok" THEN capture_remaining_succeeded(@)
                                         ELSE capture_remaining_failed(@),
               !.out = CASE outcome = "ok" -> "success"
                         [] outcome = "authentication_required" -> "requires_action"
                         [] OTHER -> "error"]]
  /\ last' = NoRequest
  /\ UNCHANGED <<booking, payment, breq, sweep, now, reminders>>

\* refund_deposit past its precondition: Refund.create(amount=deposit_amount)
CallRefund(w, outcome) ==
  /\ req[w].pc = "loaded"
  /\ req[w].op = "refund_deposit"
  /\ Precondition(req[w].op, req[w].obj)
  /\ outcome \in Outcomes(req[w].op)
  /\ gw' = [gw EXCEPT ![req[w].b].calls = @ + 1,
                      ![req[w].b].refunds = IF outcome = "ok" THEN @ + 1 ELSE @,
                      ![req[w].b].refunded = IF outcome = "ok"
                                             THEN @ + refund_amount(req[w].obj) ELSE @]
  /\ req' = [req EXCEPT ![w] = [@ EXCEPT
       !.pc = "called", !.calls = @ + 1,
       !.obj = IF outcome = "ok" THEN refund_deposit_succeeded(@)
                                 ELSE refund_deposit_failed(@),
       !.out = IF outcome = "ok" THEN "success" ELSE "error"]]
  /\ last' = NoRequest
  /\ UNCHANGED <<booking, payment, breq, sweep, now, reminders>>

\* cancel_authorization past its precondition: PaymentIntent.cancel
CallCancel(w, outcome) ==
  /\ req[w].pc = "loaded"
  /\ req[w].op = "cancel_authorization"
  /\ Precondition(req[w].op, req[w].obj)
  /\ outcome \in Outcomes(req[w].op)
  /\ gw' = [gw EXCEPT ![req[w].b].calls = @ + 1,
                      ![req[w].b].cancels = IF outcome = "ok" THEN @ + 1 ELSE @]
  /\ req' = [req EXCEPT ![w] = [@ EXCEPT
       !.pc = "called", !.calls = @ + 1,
       !.obj = IF outcome = "ok" THEN cancel_authorization_succeeded(@)
                                 ELSE cancel_authorization_failed(@),
       !.out = IF outcome = "ok" THEN "success" ELSE "error"]]
  /\ last' = NoRequest
  /\ UNCHANGED <<booking, payment, breq, sweep, now, reminders>>

\* views.confirm_payment after a successful capture_deposit: the booking is
\* read through payment.booking, flagged and saved.
ConfirmBooking(row) ==
  [row EXCEPT !.is_confirmed = TRUE, !.status = "confirmed"]

\* What a notification attempted after the save can do: be sent, come back
\* with success False, or raise.
NotificationOutcomes == {"sent", "failed", "raised"}

\* A variant in which the operation reports success only when the e-mail
\* went out.
result_after_notification_NeedsDelivery(out, notification) ==
  IF notification = "sent" THEN out ELSE "error"

\* The result the service returns once the row is saved and the e-mail was
\* attempted: a receipt that fails or raises is logged, and 'success' is
\* returned as it stood before the attempt.
result_after_notification(out, notification) == out

\* A variant of confirm_payment that confirms the booking whatever
\* capture_deposit returned.
confirms_booking_Always(op, out) == op = "confirm_payment"

\* confirm_payment: `if result['success']` before the booking is touched
confirms_booking(op, out) == op = "confirm_payment" /\ out = "success"

\* payment.save() and what follows it in the request. Model.save() writes
\* every column of the in-memory object, whatever the row holds by then.
\* After a successful capture_remaining_amount or refund_deposit one receipt
\* e-mail is attempted; after a successful capture_deposit confirm_payment
\* confirms the booking.
SavePayment(w) ==
  LET r == req[w] IN
  /\ r.pc = "called"
  /\ payment' = [payment EXCEPT ![r.b] = r.obj]
  /\ booking' = IF confirms_booking(r.op, r.out)
                THEN [booking EXCEPT ![r.b] = ConfirmBooking(@)]
                ELSE booking
  /\ gw' = IF r.out = "success" /\ r.op = "capture_remaining_amount"
             THEN [gw EXCEPT ![r.b].receipts = @ + 1]
           ELSE IF r.out = "success" /\ r.op = "refund_deposit"
             THEN [gw EXCEPT ![r.b].refund_receipts = @ + 1]
           ELSE gw
  /\ req' = [req EXCEPT ![w] = IdleReq]
  /\ \E notification \in NotificationOutcomes :
       last' = Finished(r, result_after_notification(r.out, notification))
  /\ UNCHANGED <<breq, sweep, now, reminders>>

\* A variant of the webhook's test that writes the event's status onto a
\* Payment in any status.
webhook_saves_AnyStatus(event, p) == TRUE

\* stripe_webhook, whether the view assigns and saves: always for
\* 'payment_intent.payment_failed', and for 'payment_intent.succeeded' only
\* `if payment.status == 'pending'`.
webhook_saves(event, p) ==
  event = "payment_intent.payment_failed" \/ p.status = "pending"

\* stripe_webhook, the assignment made before payment.save()
webhook_apply(event, p) ==
  [p EXCEPT !.status = IF event = "payment_intent.succeeded"
                       THEN "deposit_captured" ELSE "failed"]

\* views.stripe_webhook for a verified event whose payment-intent id is that
\* of the Payment of booking b: Payment.objects.get, the test of the event
\* type and payment.save() follow each other with no call in between, and are
\* one step here. The view answers 200 either way.
Webhook(b, event) ==
  /\ payment[b] # NoRow
  /\ event \in WebhookEvents
  /\ payment' = IF webhook_saves(event, payment[b])
                THEN [payment EXCEPT ![b] = webhook_apply(event, payment[b])]
                ELSE payment
  /\ last' = NoRequest
  /\ UNCHANGED <<booking, gw, req, breq, sweep, now, reminders>>

\* One reservation, stored by the booking view and not yet paid for.
Init ==
  /\ booking = [b \in BookingIds |-> IF b = 1 THEN NewBooking("premium", 1, 600) ELSE NoRow]
  /\ payment = [b \in BookingIds |-> NoRow]
  /\ gw = [b \in BookingIds |-> NoGateway]
  /\ req = [w \in Workers |-> IdleReq]
  /\ breq = <<>>
  /\ sweep = <<>>
  /\ now = 0
  /\ reminders = [b \in BookingIds |-> 0]
  /\ last = NoRequest

Next ==
  \/ \E b \in BookingIds, o \in {"customer_error", "intent_error", "ok"} :
       CreatePaymentIntent(b, o)
  \/ \E w \in Workers, b \in BookingIds, op \in GatewayOps : LoadPayment(w, b, op)
  \/ \E w \in Workers : RejectRequest(w)
  \/ \E w \in Workers, o \in {"ok", "error"} : CallCaptureDeposit(w, o)
  \/ \E w \in Workers, o \in Outcomes("capture_remaining_amount") : CallChargeRemaining(w, o)
  \/ \E w \in Workers, o \in {"ok", "error"} : CallRefund(w, o)
  \/ \E w \in Workers, o \in {"ok", "error"} : CallCancel(w, o)
  \/ \E w \in Workers : SavePayment(w)
  \/ \E b \in BookingIds, e \in WebhookEvents : Webhook(b, e)

Spec == Init /\ [][Next]_vars

\* ------------------------------------------------------- reminder sweeps

Sweepers == {"s1", "s2"}

\* The clock counts minutes from 00:00 of date 1.
DateOf(t) == 1 + t \div MinutesPerDay
TimeOf(t) == t % MinutesPerDay

\* timezone.datetime.combine(booking_date, booking_time)
booking_datetime(row) == (row.booking_date - 1) * MinutesPerDay + row.booking_time

\* The clock runs from 40 minutes before the first appointment of the model
\* to 20 minutes before the last.
FirstAppointment == 20 * SlotStep   \* 10:00
ClockStart == FirstAppointment - 40
ClockEnd   == FirstAppointment + SlotStep * (MaxBookings - 1) - 20

\* A variant of the task's queryset without the reminder_sent filter.
task_selects_IgnoringFlag(row, at) ==
  /\ row.is_confirmed
  /\ row.booking_date = DateOf(at + LeadMin)

\* tasks.send_booking_reminders, the queryset: confirmed, not yet reminded, on
\* the date of now + 25 minutes.
task_selects(row, at) ==
  /\ row.is_confirmed
  /\ ~row.reminder_sent
  /\ row.booking_date = DateOf(at + LeadMin)

\* send_reminders.Command.handle, the queryset: confirmed, not yet reminded,
\* on the date of now + 30 minutes, starting between now + 30 and now + 35
\* minutes as times of day.
command_selects(row, at) ==
  /\ row.is_confirmed
  /\ ~row.reminder_sent
  /\ row.booking_date = DateOf(at + CommandLead)
  /\ row.booking_time >= TimeOf(at + CommandLead)
  /\ row.booking_time <= TimeOf(at + CommandLead + CommandSpan)

selects(kind, row, at) ==
  IF kind = "task" THEN task_selects(row, at) ELSE command_selects(row, at)

\* The test inside both loops: the appointment starts 25 to 35 minutes after
\* the moment the sweep began, both ends included.
in_window(row, at) ==
  /\ at + LeadMin <= booking_datetime(row)
  /\ booking_datetime(row) <= at + LeadMax

\* The rows a queryset returns, in Meta.ordering (booking_date, booking_time);
\* rows equal in both come in id order here.
RECURSIVE Ordered(_)
Ordered(ids) ==
  IF ids = {} THEN <<>>
  ELSE LET first == CHOOSE b \in ids :
             \A c \in ids :
               \/ booking_datetime(booking[b]) < booking_datetime(booking[c])
               \/ booking_datetime(booking[b]) = booking_datetime(booking[c]) /\ b <= c
       IN <<[id |-> first, row |-> booking[first]]>> \o Ordered(ids \ {first})

\* A sweeper between sweeps; kind, at, sent and failed describe its last
\* sweep: which entry point, when it began, and the counts it reported.
IdleSweep == [pc |-> "idle", kind |-> "none", at |-> 0, todo |-> <<>>,
              sent |-> 0, failed |-> 0]

\* The start of a sweep: now is read and the queryset evaluated.
StartSweep(s, kind) ==
  /\ sweep[s].pc = "idle"
  /\ kind \in {"task", "command"}
  /\ sweep' = [sweep EXCEPT ![s] =
       [pc |-> "loop", kind |-> kind, at |-> now,
        todo |-> Ordered({b \in Stored : selects(kind, booking[b], now)}),
        sent |-> 0, failed |-> 0]]
  /\ UNCHANGED <<booking, payment, gw, req, breq, now, reminders, last>>

\* The end of a sweep: the loop has run out of rows.
EndSweep(s) ==
  /\ sweep[s].pc = "loop"
  /\ sweep[s].todo = <<>>
  /\ sweep' = [sweep EXCEPT ![s].pc = "idle"]
  /\ UNCHANGED <<booking, payment, gw, req, breq, now, reminders, last>>

\* One turn of the loop up to the notifier's answer: a row outside the window
\* is passed over; for a row inside it send_reminder_email (task) or
\* send_reminder_sms (command) is called, and delivers or fails.
VisitBooking(s, delivered) ==
  LET r == sweep[s] IN
  /\ r.pc = "loop"
  /\ r.todo # <<>>
  /\ IF ~in_window(Head(r.todo).row, r.at)
     THEN /\ delivered = FALSE
          /\ sweep' = [sweep EXCEPT ![s].todo = Tail(@)]
          /\ UNCHANGED reminders
     ELSE IF delivered
     THEN /\ reminders' = [reminders EXCEPT ![Head(r.todo).id] = @ + 1]
          /\ sweep' = [sweep EXCEPT ![s].pc = "sent"]
     ELSE /\ sweep' = [sweep EXCEPT ![s].todo = Tail(@), ![s].failed = @ + 1]
          /\ UNCHANGED reminders
  /\ UNCHANGED <<booking, payment, gw, req, breq, now, last>>

\* Booking.save on a stored row: every column of the object in memory is
\* written, booking_end_time recomputed from the service and total_price
\* filled in only when it is empty.
SavedBooking(row) ==
  [row EXCEPT !.booking_end_time = get_end_time(row.service, row.booking_time),
              !.total_price = IF @ = 0 THEN Services[row.service].price ELSE @]

\* After a delivered reminder: reminder_sent, reminder_sent_at, booking.save().
MarkReminded(s) ==
  LET r == sweep[s] IN
  /\ r.pc = "sent"
  /\ booking' = [booking EXCEPT ![Head(r.todo).id] =
       SavedBooking([Head(r.todo).row EXCEPT !.reminder_sent = TRUE,
                                             !.reminder_sent_at = SET])]
  /\ sweep' = [sweep EXCEPT ![s].pc = "loop", ![s].todo = Tail(@), ![s].sent = @ + 1]
  /\ UNCHANGED <<payment, gw, req, breq, now, reminders, last>>

\* A minute passes.
Tick ==
  /\ now < ClockEnd
  /\ now' = now + 1
  /\ UNCHANGED <<booking, payment, gw, req, breq, sweep, reminders, last>>

\* Confirmed reservations of date 1, the first at 10:00 and each other one at
\* the same time or a slot later than the one before it.
RECURSIVE AppointmentTimes(_)
AppointmentTimes(n) ==
  IF n = 1 THEN {[b \in {1} |-> FirstAppointment]}
  ELSE {[b \in 1..n |-> IF b < n THEN f[b] ELSE f[n - 1] + d] :
          f \in AppointmentTimes(n - 1), d \in {0, SlotStep}}

InitRemind ==
  /\ \E times \in AppointmentTimes(MaxBookings) :
       booking = [b \in BookingIds |->
                    ConfirmBooking(NewBooking("basic", 1, times[b]))]
  /\ payment = [b \in BookingIds |-> NoRow]
  /\ gw = [b \in BookingIds |-> NoGateway]
  /\ req = <<>>
  /\ breq = <<>>
  /\ sweep = [s \in Sweepers |-> IdleSweep]
  /\ now = ClockStart
  /\ reminders = [b \in BookingIds |-> 0]
  /\ last = NoRequest

\* Sweeps that follow one another: one sweeper.
NextRemind ==
  \/ Tick
  \/ \E k \in {"task", "command"} : StartSweep("s1", k)
  \/ \E d \in BOOLEAN : VisitBooking("s1", d)
  \/ MarkReminded("s1")
  \/ EndSweep("s1")

SpecRemind == InitRemind /\ [][NextRemind]_vars

\* Overlapping sweeps: two sweepers, started by the schedule and by the
\* command, or by two workers of the schedule's cluster. The reservations all
\* start at the last appointment time of the model and the clock starts a
\* minute before their lead-time window opens.
LastAppointment == FirstAppointment + SlotStep * (MaxBookings - 1)

InitRemindRace ==
  /\ booking = [b \in BookingIds |->
                  ConfirmBooking(NewBooking("basic", 1, LastAppointment))]
  /\ payment = [b \in BookingIds |-> NoRow]
  /\ gw = [b \in BookingIds |-> NoGateway]
  /\ req = <<>>
  /\ breq = <<>>
  /\ sweep = [s \in Sweepers |-> IdleSweep]
  /\ now = LastAppointment - LeadMax - 1
  /\ reminders = [b \in BookingIds |-> 0]
  /\ last = NoRequest

NextRemindRace ==
  \/ Tick
  \/ \E s \in Sweepers, k \in {"task", "command"} : StartSweep(s, k)
  \/ \E s \in Sweepers, d \in BOOLEAN : VisitBooking(s, d)
  \/ \E s \in Sweepers : MarkReminded(s)
  \/ \E s \in Sweepers : EndSweep(s)

SpecRemindRace == InitRemindRace /\ [][NextRemindRace]_vars

\* ------------------------------------- create_payment_intent, step by step

\* Requests that have created their PaymentIntent and not yet their Payment.
PendingCreates(b) ==
  Cardinality({v \in Workers : req[v].pc = "created" /\ req[v].b = b})

\* A variant of the insert without the one-to-one constraint: the new row
\* takes the place of the booking's Payment.
create_row_Unconstrained(existing, new) == new

\* Payment.objects.create under the one-to-one constraint on booking: the row
\* is inserted when the booking has none, and otherwise the insert is refused
\* (IntegrityError) and the table is left as it is.
create_row(existing, new) == IF existing = NoRow THEN new ELSE existing

\* views.create_payment_intent up to Payment.objects.create: the amounts are
\* computed, then Customer.create and PaymentIntent.create are called; a
\* StripeError from either ends the request with an error.
BeginPaymentIntent(w, b, outcome) ==
  /\ req[w].pc = "idle"
  /\ booking[b] # NoRow
  /\ gw[b].customers + PendingCreates(b) < MaxIntentRequests
  /\ \/ /\ outcome = "customer_error"
        /\ UNCHANGED <<gw, req>>
        /\ last' = [op |-> "create_payment_intent", status |-> "none", out |-> "error"]
     \/ /\ outcome = "intent_error"
        /\ gw' = [gw EXCEPT ![b].customers = @ + 1]
        /\ UNCHANGED req
        /\ last' = [op |-> "create_payment_intent", status |-> "none", out |-> "error"]
     \/ /\ outcome = "ok"
        /\ gw' = [gw EXCEPT ![b].customers = @ + 1, ![b].intents = @ + 1]
        /\ req' = [req EXCEPT ![w] = [IdleReq EXCEPT
             !.pc = "created", !.op = "create_payment_intent", !.b = b,
             !.obj = NewPayment(b)]]
        /\ last' = NoRequest
  /\ UNCHANGED <<booking, payment, breq, sweep, now, reminders>>

\* Payment.objects.create and the view's answer: the client secret, or a 500
\* when the insert raised.
InsertPayment(w) ==
  LET r == req[w] IN
  /\ r.pc = "created"
  /\ payment' = [payment EXCEPT ![r.b] = create_row(@, r.obj)]
  /\ req' = [req EXCEPT ![w] = IdleReq]
  /\ last' = [op |-> "create_payment_intent", status |-> "none",
              out |-> IF payment[r.b] = NoRow THEN "success" ELSE "integrity_error"]
  /\ UNCHANGED <<booking, gw, breq, sweep, now, reminders>>

\* The customer's side of one reservation: payment-intent requests, repeated
\* or concurrent, confirm_payment requests and the gateway's webhook.
NextIntent ==
  \/ \E w \in Workers, b \in BookingIds, o \in {"customer_error", "intent_error", "ok"} :
       BeginPaymentIntent(w, b, o)
  \/ \E w \in Workers : InsertPayment(w)
  \/ \E w \in Workers, b \in BookingIds : LoadPayment(w, b, "confirm_payment")
  \/ \E w \in Workers, o \in {"ok", "error"} : CallCaptureDeposit(w, o)
  \/ \E w \in Workers : SavePayment(w)
  \/ \E b \in BookingIds, e \in WebhookEvents : Webhook(b, e)

SpecIntent == Init /\ [][NextIntent]_vars

\* ------------------------------------------------------ the admin actions

Admins == {"a1"}

AdminActions == {"complete_service", "cancel_booking", "cancel_authorization"}

\* An operator between actions; action and out describe the last action
\* served. In an action, bk is the Booking object in memory, obj the Payment
\* object, call the service method whose gateway call is next or was last,
\* calls the gateway calls made.
IdleAdmin == [pc |-> "idle", action |-> "none", b |-> 1, bk |-> NoRow, obj |-> NoRow,
              call |-> "none", out |-> "none", calls |-> 0]

Returned(r, out) == [IdleAdmin EXCEPT !.action = r.action, !.b = r.b, !.out = out]

\* A variant of the cancellation that writes the status alone.
CancelledBooking_StatusOnly(row, reason) ==
  [row EXCEPT !.status = "cancelled"]

\* booking.status = 'cancelled', cancelled_at, cancellation_reason
CancelledBooking(row, reason) ==
  [row EXCEPT !.status = "cancelled", !.cancelled_at = SET,
              !.cancellation_reason = reason]

\* booking.status = 'completed'
CompletedBooking(row) == [row EXCEPT !.status = "completed"]

\* An operator at a service method's gateway call.
AtCall(a, b, action, call) ==
  [pc |-> "call", action |-> action, b |-> b, bk |-> booking[b], obj |-> payment[b],
   call |-> call, out |-> "none", calls |-> 0]

\* BookingAdmin.complete_service_and_finalize_payment for one booking, up to
\* its gateway call: the status tests, booking.payment, and the three ways on:
\* capture the remaining amount, complete at once (already fully captured) or
\* give up.
StartCompleteService(a, b) ==
  LET r == [IdleAdmin EXCEPT !.action = "complete_service", !.b = b] IN
  IF booking[b].status = "completed"
  THEN breq' = [breq EXCEPT ![a] = Returned(r, "already_completed")]
       /\ UNCHANGED booking
  ELSE IF booking[b].status \notin {"pending", "confirmed"}
  THEN breq' = [breq EXCEPT ![a] = Returned(r, "refused")]
       /\ UNCHANGED booking
  ELSE IF payment[b] = NoRow
  THEN breq' = [breq EXCEPT ![a] = Returned(r, "no_payment")]
       /\ UNCHANGED booking
  ELSE IF can_capture_remaining(payment[b])
  THEN breq' = [breq EXCEPT ![a] = AtCall(a, b, "complete_service", "capture_remaining_amount")]
       /\ UNCHANGED booking
  ELSE IF payment[b].status = "fully_captured"
  THEN breq' = [breq EXCEPT ![a] = Returned(r, "success")]
       /\ booking' = [booking EXCEPT ![b] = SavedBooking(CompletedBooking(@))]
  ELSE breq' = [breq EXCEPT ![a] = Returned(r, "refused")]
       /\ UNCHANGED booking

\* BookingAdmin.cancel_booking for a booking that has a Payment, up to its
\* gateway call: cancel the authorization of a deposit_captured Payment,
\* refund one that can_refund_deposit, and for any other Payment cancel the
\* booking at once.
StartCancelBooking(a, b) ==
  LET r == [IdleAdmin EXCEPT !.action = "cancel_booking", !.b = b] IN
  /\ payment[b] # NoRow
  /\ IF booking[b].status = "cancelled"
     THEN breq' = [breq EXCEPT ![a] = Returned(r, "already_cancelled")]
          /\ UNCHANGED booking
     ELSE IF payment[b].status = "deposit_captured"
     THEN breq' = [breq EXCEPT ![a] = AtCall(a, b, "cancel_booking", "cancel_authorization")]
          /\ UNCHANGED booking
     ELSE IF can_refund_deposit(payment[b])
     THEN breq' = [breq EXCEPT ![a] = AtCall(a, b, "cancel_booking", "refund_deposit")]
          /\ UNCHANGED booking
     ELSE breq' = [breq EXCEPT ![a] = Returned(r, "success")]
          /\ booking' = [booking EXCEPT ![b] =
               SavedBooking(CancelledBooking(@, "Cancelled by admin"))]

\* PaymentAdmin.cancel_authorization for one payment, up to its gateway call.
StartCancelAuthorization(a, b) ==
  LET r == [IdleAdmin EXCEPT !.action = "cancel_authorization", !.b = b] IN
  /\ payment[b] # NoRow
  /\ UNCHANGED booking
  /\ IF can_cancel_authorization(payment[b])
     THEN breq' = [breq EXCEPT ![a] = AtCall(a, b, "cancel_authorization", "cancel_authorization")]
     ELSE breq' = [breq EXCEPT ![a] = Returned(r, "refused")]

\* The operator picks an action for a booking in the admin list.
AdminStart(a, b, action) ==
  /\ breq[a].pc = "idle"
  /\ booking[b] # NoRow
  /\ gw[b].calls < MaxGatewayCalls
  /\ CASE action = "complete_service"     -> StartCompleteService(a, b)
       [] action = "cancel_booking"       -> StartCancelBooking(a, b)
       [] action = "cancel_authorization" -> StartCancelAuthorization(a, b)
  /\ last' = NoRequest
  /\ UNCHANGED <<payment, gw, req, sweep, now, reminders>>

\* The service method's gateway call and what it does to the Payment object
\* in memory: charge_saved_payment_method (which fails without a call when no
\* payment method was saved), PaymentIntent.cancel or Refund.create.
AdminCall(a, outcome) ==
  LET r == breq[a]
      made == ~(r.call = "capture_remaining_amount" /\ r.obj.saved_payment_method_id = NULL)
      ok == made /\ outcome = "ok"
  IN
  /\ r.pc = "call"
  /\ outcome \in Outcomes(r.call)
  /\ ~made => outcome = "error"
  /\ gw' = IF ~made THEN gw
           ELSE [gw EXCEPT ![r.b] = [@ EXCEPT
             !.calls = @ + 1,
             !.charges = IF ok /\ r.call = "capture_remaining_amount" THEN @ + 1 ELSE @,
             !.cancels = IF ok /\ r.call = "cancel_authorization" THEN @ + 1 ELSE @,
             !.refunds = IF ok /\ r.call = "refund_deposit" THEN @ + 1 ELSE @,
             !.refunded = IF ok /\ r.call = "refund_deposit"
                          THEN @ + refund_amount(r.obj) ELSE @]]
  /\ breq' = [breq EXCEPT ![a] = [r EXCEPT
       !.pc = "called",
       !.calls = IF made THEN @ + 1 ELSE @,
       !.obj = CASE r.call = "capture_remaining_amount" ->
                      IF ok THEN capture_remaining_succeeded(@) ELSE capture_remaining_failed(@)
                 [] r.call = "cancel_authorization" ->
                      IF ok THEN cancel_authorization_succeeded(@) ELSE cancel_authorization_failed(@)
                 [] r.call = "refund_deposit" ->
                      IF ok THEN refund_deposit_succeeded(@) ELSE refund_deposit_failed(@),
       !.out = IF ok THEN "success"
               ELSE IF outcome = "authentication_required" THEN "requires_action"
               ELSE "error"]]
  /\ last' = NoRequest
  /\ UNCHANGED <<booking, payment, req, sweep, now, reminders>>

\* A variant of the test of payment_result that lets every result through.
capture_succeeded_Always(out) == TRUE

\* complete_service's test of the capture: payment_result['success']
capture_succeeded(out) == out = "success"

\* payment.save() in the service method, and what the action does with the
\* result up to its next call out. complete_service stops on a failure;
\* cancel_booking tries a refund when the cancel failed and the Payment
\* can_refund_deposit, and otherwise goes on to cancel the booking;
\* PaymentAdmin.cancel_authorization on success reads payment.booking and
\* cancels it unless it is cancelled or completed.
AdminSavePayment(a) ==
  LET r == breq[a] IN
  /\ r.pc = "called"
  /\ payment' = [payment EXCEPT ![r.b] = r.obj]
  /\ gw' = IF r.out = "success" /\ r.call = "capture_remaining_amount"
             THEN [gw EXCEPT ![r.b].receipts = @ + 1]
           ELSE IF r.out = "success" /\ r.call = "refund_deposit"
             THEN [gw EXCEPT ![r.b].refund_receipts = @ + 1]
           ELSE gw
  /\ CASE r.action = "complete_service" ->
            /\ breq' = [breq EXCEPT ![a] =
                 IF capture_succeeded(r.out) THEN [r EXCEPT !.pc = "finish"]
                 ELSE Returned(r, r.out)]
            /\ UNCHANGED booking
       [] r.action = "cancel_booking" ->
            /\ breq' = [breq EXCEPT ![a] =
                 IF r.call = "cancel_authorization" /\ r.out # "success"
                    /\ can_refund_deposit(r.obj)
                 THEN [r EXCEPT !.pc = "call", !.call = "refund_deposit"]
                 ELSE [r EXCEPT !.pc = "finish"]]
            /\ UNCHANGED booking
       [] r.action = "cancel_authorization" ->
            /\ breq' = [breq EXCEPT ![a] = Returned(r, r.out)]
            /\ booking' =
                 IF r.out = "success" /\ booking[r.b].status \notin {"cancelled", "completed"}
                 THEN [booking EXCEPT ![r.b] = SavedBooking(
                         CancelledBooking(@, "Payment authorization cancelled by admin"))]
                 ELSE booking
  /\ last' = NoRequest
  /\ UNCHANGED <<req, sweep, now, reminders>>

\* booking.save() at the end of complete_service and cancel_booking: the
\* Booking object read when the action began is written back, every column.
AdminFinish(a) ==
  LET r == breq[a] IN
  /\ r.pc = "finish"
  /\ booking' = [booking EXCEPT ![r.b] = SavedBooking(
       IF r.action = "complete_service" THEN CompletedBooking(r.bk)
       ELSE CancelledBooking(r.bk, "Cancelled by admin"))]
  /\ breq' = [breq EXCEPT ![a] = Returned(r, "success")]
  /\ last' = NoRequest
  /\ UNCHANGED <<payment, gw, req, sweep, now, reminders>>

\* BookingAdmin.mark_completed: one UPDATE of the pending and confirmed rows.
MarkCompleted(b) ==
  /\ booking[b] # NoRow
  /\ booking[b].status \in {"pending", "confirmed"}
  /\ booking' = [booking EXCEPT ![b].status = "completed"]
  /\ last' = NoRequest
  /\ UNCHANGED <<payment, gw, req, breq, sweep, now, reminders>>

\* A variant of mark_no_show that also stamps the row the way a
\* cancellation does.
NoShowBooking_AlsoStamps(row) ==
  [row EXCEPT !.status = "no_show", !.cancelled_at = SET]

\* mark_no_show: update(status='no_show'), the one column written
NoShowBooking(row) == [row EXCEPT !.status = "no_show"]

\* BookingAdmin.mark_no_show: one UPDATE of the pending and confirmed rows.
MarkNoShow(b) ==
  /\ booking[b] # NoRow
  /\ booking[b].status \in {"pending", "confirmed"}
  /\ booking' = [booking EXCEPT ![b] = NoShowBooking(@)]
  /\ last' = NoRequest
  /\ UNCHANGED <<payment, gw, req, breq, sweep, now, reminders>>

\* One reservation, stored and not yet paid for, the customer's browser (the
\* payment-intent and confirm_payment requests), the gateway's webhook and one
\* operator in the admin.
InitAdmin ==
  /\ booking = [b \in BookingIds |-> IF b = 1 THEN NewBooking("premium", 1, 600) ELSE NoRow]
  /\ payment = [b \in BookingIds |-> NoRow]
  /\ gw = [b \in BookingIds |-> NoGateway]
  /\ req = [w \in Workers |-> IdleReq]
  /\ breq = [a \in Admins |-> IdleAdmin]
  /\ sweep = <<>>
  /\ now = 0
  /\ reminders = [b \in BookingIds |-> 0]
  /\ last = NoRequest

NextAdmin ==
  \/ \E b \in BookingIds, o \in {"customer_error", "intent_error", "ok"} :
       CreatePaymentIntent(b, o)
  \/ \E b \in BookingIds : LoadPayment("w1", b, "confirm_payment")
  \/ \E o \in {"ok", "error"} : CallCaptureDeposit("w1", o)
  \/ SavePayment("w1")
  \/ \E b \in BookingIds, e \in WebhookEvents : Webhook(b, e)
  \/ \E a \in Admins, b \in BookingIds, action \in AdminActions : AdminStart(a, b, action)
  \/ \E a \in Admins, o \in Outcomes("capture_remaining_amount") : AdminCall(a, o)
  \/ \E a \in Admins : AdminSavePayment(a)
  \/ \E a \in Admins : AdminFinish(a)
  \/ \E b \in BookingIds : MarkCompleted(b)
  \/ \E b \in BookingIds : MarkNoShow(b)
  \/ \E b \in BookingIds : CancelUnpaidBooking(b)

SpecAdmin == InitAdmin /\ [][NextAdmin]_vars

\* ------------------------------------------------------- webhook requests

\* What a webhook request can name: the payment intent of one of the
\* reservations, or an intent id that no Payment carries.
UnknownIntent == 0
WebhookTargets == BookingIds \cup {UnknownIntent}

\* The event types a request can carry: the two the view acts on and one it
\* does not look at.
EventTypes == WebhookEvents \cup {"charge.refunded"}

\* A variant of the verification that lets a payload with a bad signature
\* through.
construct_event_IgnoresSignature(payload_ok, signature_ok) == payload_ok

\* stripe.Webhook.construct_event: ValueError for a payload that does not
\* parse, SignatureVerificationError for a signature that does not match.
construct_event(payload_ok, signature_ok) == payload_ok /\ signature_ok

\* The response of stripe_webhook as the record of the step just taken.
WebhookResponse(code) == [op |-> "stripe_webhook", status |-> "none", out |-> code]

\* Payment.objects.get(stripe_payment_intent_id=...) finds a row
intent_matches(target) == target \in BookingIds /\ payment[target] # NoRow

\* views.stripe_webhook, the whole view: a request that does not verify is
\* answered 400 before any row is read; a verified event of another type,
\* or one whose intent id matches no Payment (Payment.DoesNotExist is
\* passed over), is answered 200 with nothing written; the two event types
\* of a matching Payment are handled as in Webhook.
StripeWebhook(payload_ok, signature_ok, target, event) ==
  IF ~construct_event(payload_ok, signature_ok)
  THEN /\ last' = WebhookResponse("400")
       /\ UNCHANGED <<booking, payment, gw, req, breq, sweep, now, reminders>>
  ELSE IF event \notin WebhookEvents \/ ~intent_matches(target)
  THEN /\ last' = WebhookResponse("200")
       /\ UNCHANGED <<booking, payment, gw, req, breq, sweep, now, reminders>>
  ELSE Webhook(target, event)

\* One customer's payment requests, one after the other, and webhook
\* requests of every kind between their steps.
NextWebhook ==
  \/ \E b \in BookingIds, o \in {"customer_error", "intent_error", "ok"} :
       CreatePaymentIntent(b, o)
  \/ \E b \in BookingIds, op \in GatewayOps : LoadPayment("w1", b, op)
  \/ RejectRequest("w1")
  \/ \E o \in {"ok", "error"} : CallCaptureDeposit("w1", o)
  \/ \E o \in Outcomes("capture_remaining_amount") : CallChargeRemaining("w1", o)
  \/ \E o \in {"ok", "error"} : CallRefund("w1", o)
  \/ \E o \in {"ok", "error"} : CallCancel("w1", o)
  \/ SavePayment("w1")
  \/ \E payload_ok, signature_ok \in BOOLEAN, t \in WebhookTargets, e \in EventTypes :
       StripeWebhook(payload_ok, signature_ok, t, e)

SpecWebhook == Init /\ [][NextWebhook]_vars

\* ------------------------------------------------------ unavailable slots

\* views.booking: Booking.objects.exclude(status='cancelled')
existing_bookings ==
  {b \in BookingIds : booking[b] # NoRow /\ booking[b].status # "cancelled"}

\* A variant of the slot loop that stops at the end time, without the
\* commute.
slots_of_WithoutCommute(row) ==
  {t \in 0..(MinutesPerDay + CommuteBuffer) :
     /\ t >= row.booking_time
     /\ (t - row.booking_time) % SlotStep = 0
     /\ t < row.booking_end_time}

\* views.booking, the slots one reservation marks: from its start, every 30
\* minutes, while before its end time plus the 30 minutes of commute.
slots_of(row) ==
  {t \in 0..(MinutesPerDay + CommuteBuffer) :
     /\ t >= row.booking_time
     /\ (t - row.booking_time) % SlotStep = 0
     /\ t < row.booking_end_time + CommuteBuffer}

\* views.booking: unavailable_slots[date_str]
unavailable_slots(date) ==
  UNION {slots_of(booking[b]) : b \in {c \in existing_bookings : booking[c].booking_date = date}}

\* ------------------------------------------ catalog edits and later saves

\* What ServiceAdmin can leave in the price and duration_minutes columns of
\* the offering a reservation points to, at the moment a save reads them.
\* Neither field has a validator; a price of 0.00 is a value the column takes.
CatalogPrices    == {0, 10000, 12000}
CatalogDurations == {60, 90}
CatalogEntries ==
  {[price |-> p, duration_minutes |-> d] : p \in CatalogPrices, d \in CatalogDurations}

\* Service.get_end_time on the offering as the save finds it
end_time_of(svc, start_time) ==
  (start_time + svc.duration_minutes) % MinutesPerDay

\* Booking.save: booking_end_time is assigned from the service on every
\* save; total_price is assigned from the service `if not self.total_price`,
\* which is true of None and of 0.00 (both are 0 here).
Booking_save(row, svc) ==
  [row EXCEPT !.booking_end_time = end_time_of(svc, row.booking_time),
              !.total_price = IF @ = 0 THEN svc.price ELSE @]

\* The handlers that assign columns of a stored reservation and call save():
\* confirm_payment, cancel_booking, complete_service and the reminder sweep.
BookingChanges == {"confirm", "cancel", "complete", "remind"}

ChangedBooking(row, change) ==
  CASE change = "confirm"  -> ConfirmBooking(row)
    [] change = "cancel"   -> CancelledBooking(row, "Cancelled by admin")
    [] change = "complete" -> CompletedBooking(row)
    [] change = "remind"   -> [row EXCEPT !.reminder_sent = TRUE, !.reminder_sent_at = SET]

\* views.booking, form.save() of a valid form while the offering stands at
\* svc: the instance has no total_price yet.
CreateBooking(time, svc) ==
  /\ Cardinality(Stored) < MaxBookings
  /\ time \in time_choices
  /\ booking' = [booking EXCEPT ![NextId] =
       Booking_save([NewBooking("premium", 1, time) EXCEPT !.total_price = 0], svc)]
  /\ last' = NoRequest
  /\ UNCHANGED <<payment, gw, req, breq, sweep, now, reminders>>

\* A later save of a stored reservation by one of the handlers, while the
\* offering stands at svc.
SaveBooking(b, change, svc) ==
  /\ booking[b] # NoRow
  /\ change = "cancel" => booking[b].status # "cancelled"
  /\ change = "complete" => booking[b].status = "confirmed"
  /\ change = "remind" => booking[b].status = "confirmed" /\ ~booking[b].reminder_sent
  /\ booking' = [booking EXCEPT ![b] = Booking_save(ChangedBooking(@, change), svc)]
  /\ last' = NoRequest
  /\ UNCHANGED <<payment, gw, req, breq, sweep, now, reminders>>

\* create_payment_intent: total_amount_cents = int(booking.service.price * 100),
\* the offering's price as the request finds it.
payment_total(row, svc) == svc.price

\* StripePaymentService.create_payment_intent while the offering stands at
\* svc, both gateway calls succeeding: the row of Payment.objects.create.
CreatePaymentAt(b, svc) ==
  /\ booking[b] # NoRow
  /\ payment[b] = NoRow
  /\ gw' = [gw EXCEPT ![b].customers = @ + 1, ![b].intents = @ + 1]
  /\ payment' = [payment EXCEPT ![b] =
       [NewPayment(b) EXCEPT
          !.total_amount = payment_total(booking[b], svc),
          !.remaining_amount = payment_total(booking[b], svc) - STRIPE_DEPOSIT_AMOUNT]]
  /\ last' = NoRequest
  /\ UNCHANGED <<booking, req, breq, sweep, now, reminders>>

InitCatalog ==
  /\ booking = [b \in BookingIds |-> NoRow]
  /\ payment = [b \in BookingIds |-> NoRow]
  /\ gw = [b \in BookingIds |-> NoGateway]
  /\ req = [w \in Workers |-> IdleReq]
  /\ breq = <<>>
  /\ sweep = <<>>
  /\ now = 0
  /\ reminders = [b \in BookingIds |-> 0]
  /\ last = NoRequest

NextCatalog ==
  \/ \E svc \in CatalogEntries : CreateBooking(FirstAppointment, svc)
  \/ \E b \in BookingIds, change \in BookingChanges, svc \in CatalogEntries :
       SaveBooking(b, change, svc)
  \/ \E b \in BookingIds, svc \in CatalogEntries : CreatePaymentAt(b, svc)

SpecCatalog == InitCatalog /\ [][NextCatalog]_vars

\* ------------------------------------- reminder sweeps and status changes

\* Sweeps that follow one another while the operator cancels reservations
\* (cancel_booking on a reservation without a Payment) or marks them completed
\* or no-show.
NextRemindStatus ==
  \/ Tick
  \/ \E k \in {"task", "command"} : StartSweep("s1", k)
  \/ \E d \in BOOLEAN : VisitBooking("s1", d)
  \/ MarkReminded("s1")
  \/ EndSweep("s1")
  \/ \E b \in BookingIds : CancelUnpaidBooking(b)
  \/ \E b \in BookingIds : MarkCompleted(b)
  \/ \E b \in BookingIds : MarkNoShow(b)

SpecRemindStatus == InitRemind /\ [][NextRemindStatus]_vars

\* ------------------------------------- reminder sweeps and admin actions

\* A confirmed reservation whose deposit was captured, half an hour before it
\* starts; the sweep and one operator in the admin.
InitReleaseRemind ==
  /\ booking = [b \in BookingIds |->
       IF b = 1 THEN ConfirmBooking(NewBooking("basic", 1, FirstAppointment)) ELSE NoRow]
  /\ payment = [b \in BookingIds |->
       IF b = 1 THEN capture_deposit_succeeded(NewPayment(1)) ELSE NoRow]
  /\ gw = [b \in BookingIds |->
       IF b = 1 THEN [NoGateway EXCEPT !.calls = 1, !.customers = 1, !.intents = 1,
                                       !.captures = 1]
       ELSE NoGateway]
  /\ req = [w \in Workers |-> IdleReq]
  /\ breq = [a \in Admins |-> IdleAdmin]
  /\ sweep = [s \in Sweepers |-> IdleSweep]
  /\ now = FirstAppointment - CommandLead
  /\ reminders = [b \in BookingIds |-> 0]
  /\ last = NoRequest

NextReleaseRemind ==
  \/ StartSweep("s1", "task")
  \/ \E d \in BOOLEAN : VisitBooking("s1", d)
  \/ MarkReminded("s1")
  \/ EndSweep("s1")
  \/ \E a \in Admins, b \in BookingIds, action \in AdminActions : AdminStart(a, b, action)
  \/ \E a \in Admins, o \in Outcomes("capture_remaining_amount") : AdminCall(a, o)
  \/ \E a \in Admins : AdminSavePayment(a)
  \/ \E a \in Admins : AdminFinish(a)

SpecReleaseRemind == InitReleaseRemind /\ [][NextReleaseRemind]_vars

\* ------------------------------------------- reminder sweeps on a schedule

\* A variant of the schedule that runs the task every quarter of an hour.
next_run_Quarterly(at) == at + 3 * SchedulePeriod

\* setup_schedule: schedule_type MINUTES, minutes 5, repeats -1. The task runs
\* again five minutes after it ran, for ever.
next_run(at) == at + SchedulePeriod

\* The schedule starts send_booking_reminders when its time has come.
ScheduledSweep ==
  /\ now = next_run(sweep["s1"].at)
  /\ StartSweep("s1", "task")

\* One turn of the task's loop with a notifier that succeeds: a row inside
\* the window is delivered.
ScheduledVisit ==
  /\ sweep["s1"].todo # <<>>
  /\ VisitBooking("s1", in_window(Head(sweep["s1"].todo).row, sweep["s1"].at))

\* A minute passes, but the clock does not pass the time of the next run
\* before that run has begun.
ScheduleTick ==
  /\ now < next_run(sweep["s1"].at)
  /\ Tick

\* Confirmed reservations as in InitRemind; the schedule's last run was at any
\* minute before the clock starts that leaves its next run still to come.
InitSchedule ==
  /\ \E times \in AppointmentTimes(MaxBookings) :
       booking = [b \in BookingIds |->
                    ConfirmBooking(NewBooking("basic", 1, times[b]))]
  /\ payment = [b \in BookingIds |-> NoRow]
  /\ gw = [b \in BookingIds |-> NoGateway]
  /\ req = <<>>
  /\ breq = <<>>
  /\ \E ran \in {t \in (ClockStart - LeadMax)..(ClockStart - 1) :
                      next_run(t) >= ClockStart} :
       sweep = [s \in Sweepers |-> [IdleSweep EXCEPT !.at = ran]]
  /\ now = ClockStart
  /\ reminders = [b \in BookingIds |-> 0]
  /\ last = NoRequest

NextSchedule ==
  \/ ScheduleTick
  \/ ScheduledSweep
  \/ ScheduledVisit
  \/ MarkReminded("s1")
  \/ EndSweep("s1")

\* The clock runs, the cluster starts the task when it is due and a started
\* task runs to its end.
SpecSchedule == InitSchedule /\ [][NextSchedule]_vars /\ WF_vars(NextSchedule)

\* ------------------------------------------------------ Booking.overlaps_with

\* A variant of overlaps_with whose start comparisons are both strict.
overlaps_with_StrictStart(self, other_booking) ==
  IF self.booking_date # other_booking.booking_date THEN FALSE
  ELSE \/ /\ self.booking_time < other_booking.booking_time
          /\ other_booking.booking_time < self.booking_end_time
       \/ /\ other_booking.booking_time < self.booking_time
          /\ self.booking_time < other_booking.booking_end_time

\* Booking.overlaps_with: False for different dates; otherwise the other's
\* start lies in [start, end) of this one, or this one's start in the other's.
overlaps_with(self, other_booking) ==
  IF self.booking_date # other_booking.booking_date THEN FALSE
  ELSE \/ /\ self.booking_time <= other_booking.booking_time
          /\ other_booking.booking_time < self.booking_end_time
       \/ /\ other_booking.booking_time <= self.booking_time
          /\ self.booking_time < other_booking.booking_end_time

\* The reservations overlaps_with is applied to: the start times are choices
\* of the form, the last of them 21:00; the durations are values of
\* Service.duration_minutes, the longest taking a 21:00 start past midnight.
OverlapTimes     == {600, 630, 660, LastSlot}
OverlapDurations == {30, 60, 240}

OverlapRows ==
  {[NewBooking("basic", date, time) EXCEPT
      !.booking_end_time = (time + duration) % MinutesPerDay] :
     date \in InputDates, time \in OverlapTimes, duration \in OverlapDurations}

\* No call made yet.
NoCall == [self |-> 0, other |-> 0, result |-> FALSE]

InitOverlap ==
  /\ booking \in [BookingIds -> OverlapRows]
  /\ payment = [b \in BookingIds |-> NoRow]
  /\ gw = [b \in BookingIds |-> NoGateway]
  /\ req = NoCall
  /\ breq = <<>>
  /\ sweep = <<>>
  /\ now = 0
  /\ reminders = [b \in BookingIds |-> 0]
  /\ last = NoRequest

\* a.overlaps_with(b); req keeps the call and its result.
CallOverlapsWith(a, b) ==
  /\ req' = [self |-> a, other |-> b, result |-> overlaps_with(booking[a], booking[b])]
  /\ UNCHANGED <<booking, payment, gw, breq, sweep, now, reminders, last>>

NextOverlap ==
  \E a \in BookingIds, b \in BookingIds : CallOverlapsWith(a, b)

SpecOverlap == InitOverlap /\ [][NextOverlap]_vars

\* ------------------------------------------------------------------ claims

\* Two stored rows whose buffered intervals [booking_time, booking_end_time + 30)
\* meet on one date.
BufferedIntersect(x, y) ==
  /\ x.booking_date = y.booking_date
  /\ x.booking_time < y.booking_end_time + CommuteBuffer
  /\ y.booking_time < x.booking_end_time + CommuteBuffer

\* C1: after any sequence of booking submissions and cancellations, no two
\* distinct reservations that are both not cancelled have intersecting
\* buffered intervals on the same date.
C1_NoDoubleBooking ==
  \A x \in Stored, y \in Stored :
    (x # y /\ booking[x].status # "cancelled" /\ booking[y].status # "cancelled")
      => ~BufferedIntersect(booking[x], booking[y])

\* Two stored rows whose service windows [booking_time, booking_end_time) meet
\* on one date.
WindowsOverlap(x, y) ==
  /\ x.booking_date = y.booking_date
  /\ x.booking_time < y.booking_end_time
  /\ y.booking_time < x.booking_end_time

\* C2: of two booking requests for overlapping windows on one date that were
\* in flight at the same time, at most one ends with a stored reservation.
C2_ConcurrentAtMostOne ==
  \A w \in FormWorkers, v \in FormWorkers :
    (w # v /\ breq[w].pc = "idle" /\ breq[v].pc = "idle"
       /\ breq[w].result = "stored" /\ breq[v].result = "stored"
       /\ breq[w].raced /\ breq[v].raced)
      => ~WindowsOverlap(booking[breq[w].id], booking[breq[v].id])

\* C3: whatever the interleaving of capture_remaining_amount invocations, the
\* gateway accepts at most one off-session charge of the remaining amount for
\* a Payment.
C3_NoDuplicateCharge ==
  \A b \in BookingIds : gw[b].charges <= 1

\* C4: a payment_intent.payment_failed event leaves the status of a Payment
\* that is fully_captured or deposit_refunded as it is, and sets any other
\* status to failed.
C4_FailedEventKeepsSuccess ==
  [][\A b \in BookingIds :
       Webhook(b, "payment_intent.payment_failed") =>
         IF payment[b].status \in {"fully_captured", "deposit_refunded"}
         THEN payment'[b].status = payment[b].status
         ELSE payment'[b].status = "failed"]_vars

\* C5: every write of a Payment's status is conditional on the status the
\* request read still being the current one (compare-and-set), so that a
\* webhook and an operator request on one Payment cannot lose an update.
C5_StatusWritesAreCompareAndSet ==
  [][\A w \in Workers :
       SavePayment(w) => payment[req[w].b].status = req[w].pre.status]_vars

\* C6: capture_remaining_amount on a Payment that is already fully_captured
\* returns success (without a gateway charge or a receipt).
C6_CaptureRemainingIdempotent ==
  (last.op = "capture_remaining_amount" /\ last.status = "fully_captured")
    => last.out = "success"

\* C7: every Payment has remaining_amount = total_amount - deposit_amount, and
\* its three amounts stay what create_payment_intent made them: the price of
\* the booked service, the configured deposit and their difference.
C7_RemainingIsTotalMinusDeposit ==
  \A b \in BookingIds :
    payment[b] # NoRow =>
      /\ payment[b].remaining_amount = payment[b].total_amount - payment[b].deposit_amount
      /\ payment[b].total_amount = Services[booking[b].service].price
      /\ payment[b].deposit_amount = STRIPE_DEPOSIT_AMOUNT

\* C7 witness: a Payment that went through capture, full capture and refund.
C7_Witness ==
  /\ payment[1] # NoRow
  /\ payment[1].status = "deposit_refunded"
  /\ payment[1].fully_captured_at = SET
  /\ payment[1].remaining_amount = 7500

\* C8: capture_deposit reaches the gateway only for a Payment it read as
\* pending; in any other status it is rejected before the call.
C8_CaptureDepositRequiresPending ==
  \A w \in Workers :
    (req[w].pc = "called" /\ req[w].op = "confirm_payment")
      => req[w].pre.status = "pending"

\* The statuses in which C9 says an operation is refused.
WrongState(op, status) ==
  \/ op = "refund_deposit" /\ status \notin {"deposit_captured", "fully_captured"}
  \/ op = "cancel_authorization" /\ status # "deposit_captured"
  \/ op = "capture_remaining_amount"
       /\ status \in {"pending", "failed", "cancelled", "deposit_refunded"}

\* C9: refund_deposit outside {deposit_captured, fully_captured},
\* cancel_authorization outside deposit_captured and capture_remaining_amount
\* in pending, failed, cancelled or deposit_refunded return an error, call no
\* gateway and leave the Payment row as it is.
C9_WrongStateIsRejected ==
  [][\A w \in Workers :
       (req[w].pc = "loaded" /\ WrongState(req[w].op, req[w].pre.status)
          /\ req'[w] # req[w])
         => /\ req'[w].pc = "idle"
            /\ last' = [op |-> req[w].op, status |-> req[w].pre.status,
                        out |-> "precondition_error"]
            /\ payment' = payment
            /\ gw' = gw]_vars

\* C9 witness: refund_deposit was called on a pending Payment and refused.
C9_Witness ==
  last = [op |-> "refund_deposit", status |-> "pending", out |-> "precondition_error"]

\* C10: over any number of sweeps that follow one another, of either entry
\* point, at most one reminder is delivered for a reservation.
C10_AtMostOneReminder ==
  \A b \in BookingIds : reminders[b] <= 1

\* C10 witness: a sweep began while reservation 1, already reminded, was
\* still inside its lead-time window, and sent and failed nothing.
C10_Witness ==
  /\ reminders[1] = 1
  /\ booking[1].reminder_sent
  /\ sweep["s1"].pc = "idle"
  /\ sweep["s1"].kind = "task"
  /\ in_window(booking[1], sweep["s1"].at)
  /\ sweep["s1"].sent = 0
  /\ sweep["s1"].failed = 0

\* C11: when two sweeps overlap, in any interleaving of their query, send and
\* flag-write steps, no reservation is delivered more than one reminder.
C11_OverlappingSweepsSendOnce ==
  \A b \in BookingIds : ~(reminders[b] > 1)

\* The last sweep of sweeper s tried reservation b and the notifier failed:
\* the sweep selected it inside its window and it is still unflagged.
FailedInLastSweep(s, b) ==
  /\ sweep[s].pc = "idle"
  /\ sweep[s].kind # "none"
  /\ sweep[s].failed > 0
  /\ selects(sweep[s].kind, booking[b], sweep[s].at)
  /\ in_window(booking[b], sweep[s].at)
  /\ ~booking[b].reminder_sent

\* The reservations a running sweep holds.
Selected(r) == {r.todo[i].id : i \in DOMAIN r.todo}

\* C12: reminder_sent rises, with its stamp, only after a delivered reminder;
\* and a reservation whose send failed in one sweep is selected by the next
\* sweep that starts while it is still inside its lead-time window.
C12_FailedSendIsRetried ==
  [][/\ \A b \in BookingIds :
          (~booking[b].reminder_sent /\ booking'[b].reminder_sent)
            => (reminders[b] >= 1 /\ booking'[b].reminder_sent_at = SET)
     /\ \A b \in BookingIds, k \in {"task", "command"} :
          (FailedInLastSweep("s1", b) /\ in_window(booking[b], now)
             /\ StartSweep("s1", k))
            => b \in Selected(sweep'["s1"])]_vars

\* C13: a reservation goes from pending or confirmed to completed only in a
\* step that leaves its Payment fully_captured.
C13_CompletedOnlyWhenFullyCaptured ==
  [][\A b \in BookingIds :
       (booking[b] # NoRow /\ booking[b].status \in {"pending", "confirmed"}
          /\ booking'[b].status = "completed")
         => (payment'[b] # NoRow /\ payment'[b].status = "fully_captured")]_vars

\* C14: a step of complete_service_and_finalize_payment changes the
\* reservation's status only to completed, and only after a successful
\* capture or, with no capture to make, for a Payment already fully_captured;
\* a failed capture, a missing Payment and a Payment in any other status
\* leave the status as it was.
C14_FailedCaptureLeavesStatus ==
  [][\A a \in Admins :
       LET r == breq[a]
           t == breq'[a]
       IN (t # r
             /\ (IF r.pc = "idle" THEN t.action ELSE r.action) = "complete_service"
             /\ booking'[t.b].status # booking[t.b].status)
            => /\ booking'[t.b].status = "completed"
               /\ IF r.pc = "idle"
                  THEN payment[t.b] # NoRow /\ payment[t.b].status = "fully_captured"
                  ELSE r.pc = "finish" /\ r.out = "success"]_vars

\* C14 witness: the capture asked for customer authentication, the action
\* ended and the reservation is still confirmed.
C14_Witness ==
  /\ breq["a1"].pc = "idle"
  /\ breq["a1"].action = "complete_service"
  /\ breq["a1"].out = "requires_action"
  /\ booking[1].status = "confirmed"
  /\ payment[1].notes = "Remaining payment failed"

TerminalStatuses == {"completed", "cancelled", "no_show"}

\* C15: the status of a completed, cancelled or no_show reservation never
\* changes again.
C15_TerminalStatusesStay ==
  [][\A b \in BookingIds :
       (booking[b] # NoRow /\ booking[b].status \in TerminalStatuses)
         => booking'[b].status = booking[b].status]_vars

\* The Payment statuses in which the gateway holds the customer's funds.
HoldsFunds(p) == p.status \in {"pending", "deposit_captured", "fully_captured"}

\* C16: when cancel_booking cancels a reservation whose Payment holds funds,
\* the action has made a gateway cancel or refund call for it.
C16_CancelReleasesHeldPayment ==
  [][\A a \in Admins :
       LET r == breq[a]
           t == breq'[a]
       IN (t # r /\ t.pc = "idle" /\ t.action = "cancel_booking"
             /\ booking[t.b].status # "cancelled"
             /\ booking'[t.b].status = "cancelled")
            => IF r.pc = "idle"
               THEN ~HoldsFunds(payment[t.b])
               ELSE r.calls >= 1]_vars

\* C17: a reservation never gets a second Payment: a create_payment_intent
\* request that reaches Payment.objects.create while the reservation has a
\* Payment is refused and the Payment table is left as it is.
C17_OnePaymentPerReservation ==
  [][\A w \in Workers :
       (InsertPayment(w) /\ payment[req[w].b] # NoRow)
         => (payment' = payment /\ last'.out = "integrity_error")]_vars

\* C17 witness: a second request was refused while the Payment of the first,
\* already captured, stayed as it was.
C17_Witness ==
  /\ last.op = "create_payment_intent"
  /\ last.out = "integrity_error"
  /\ payment[1] # NoRow
  /\ payment[1].status = "deposit_captured"
  /\ gw[1].intents = 2

\* C18: capture_deposit on a Payment read as pending makes one gateway capture
\* call and writes deposit_captured with the capture stamp and the payment
\* method when the gateway accepted, and failed with the error in notes when
\* it did not.
C18_CaptureDepositOutcomes ==
  [][\A w \in Workers :
       (SavePayment(w) /\ req[w].op = "confirm_payment" /\ req[w].pre.status = "pending")
         => LET p == payment'[req[w].b] IN
            /\ req[w].calls = 1
            /\ req[w].out \in {"success", "error"}
            /\ req[w].out = "success" =>
                 /\ p.status = "deposit_captured"
                 /\ p.deposit_captured_at = SET
                 /\ p.saved_payment_method_id # NULL
            /\ req[w].out = "error" =>
                 /\ p.status = "failed"
                 /\ p.notes = "Deposit capture failed"]_vars

\* C18 witness: a confirm_payment on a pending Payment was refused by the
\* gateway, after one call.
C18_Witness ==
  /\ last = [op |-> "confirm_payment", status |-> "pending", out |-> "error"]
  /\ payment[1].status = "failed"
  /\ gw[1].calls = 1
  /\ gw[1].captures = 0

\* C19: a payment operation whose gateway call ended in an error (a timeout
\* is one) writes back the status it read.
C19_GatewayErrorKeepsStatus ==
  [][\A w \in Workers :
       (SavePayment(w) /\ req[w].out = "error")
         => payment'[req[w].b].status = req[w].pre.status]_vars

\* C20: a capture_remaining_amount that failed writes deposit_captured and
\* the error in notes; the gateway's authentication_required is answered
\* with requires_action and every other failure with the plain error.
C20_FailedRemainingCaptureCanRetry ==
  [][\A w \in Workers :
       /\ (SavePayment(w) /\ req[w].op = "capture_remaining_amount"
             /\ req[w].out # "success")
            => /\ payment'[req[w].b].status = "deposit_captured"
               /\ payment'[req[w].b].notes = "Remaining payment failed"
       /\ \A o \in Outcomes("capture_remaining_amount") \ {"ok"} :
            CallChargeRemaining(w, o)
              => (req'[w].out = "requires_action")
                   = (o = "authentication_required"
                        /\ req[w].obj.saved_payment_method_id # NULL)]_vars

\* C20 witness: an off-session charge needed authentication; the Payment is
\* still deposit_captured and carries the error.
C20_Witness ==
  /\ last = [op |-> "capture_remaining_amount", status |-> "deposit_captured",
             out |-> "requires_action"]
  /\ payment[1].status = "deposit_captured"
  /\ payment[1].notes = "Remaining payment failed"
  /\ gw[1].charges = 0

\* C21: when the gateway accepted the remaining-balance charge,
\* capture_remaining_amount writes fully_captured with its stamp, returns
\* success whether the completion receipt was sent, failed or raised, and
\* attempts the receipt exactly once.
C21_AcceptedChargeIsFullyCaptured ==
  [][\A w \in Workers :
       (SavePayment(w) /\ req[w].op = "capture_remaining_amount"
                       /\ req[w].out = "success")
       => /\ payment'[req[w].b].status = "fully_captured"
          /\ payment'[req[w].b].fully_captured_at = SET
          /\ last'.out = "success"
          /\ gw'[req[w].b].receipts = gw[req[w].b].receipts + 1]_vars

\* C21 witness: capture_remaining_amount has just returned success for a
\* Payment it read as deposit_captured, with one charge and one receipt.
C21_Witness ==
  /\ last = [op |-> "capture_remaining_amount", status |-> "deposit_captured",
             out |-> "success"]
  /\ payment[1].status = "fully_captured"
  /\ payment[1].fully_captured_at = SET
  /\ gw[1].charges = 1
  /\ gw[1].receipts = 1

\* C22: refund_deposit on a Payment read as deposit_captured or
\* fully_captured asks the gateway to refund the deposit amount, not the
\* remaining balance and not the total; when the gateway accepted, the row is
\* written deposit_refunded with refunded_at and the reason in notes, and
\* when it failed the row is written with the status that was read.
C22_RefundIsTheDeposit ==
  [][\A w \in Workers :
       LET r == req[w] IN
       /\ (\E o \in Outcomes("refund_deposit") : CallRefund(w, o))
            => /\ refund_amount(r.obj) = r.pre.deposit_amount
               /\ refund_amount(r.obj) # r.pre.total_amount
               /\ gw'[r.b].refunded - gw[r.b].refunded =
                    (gw'[r.b].refunds - gw[r.b].refunds) * r.pre.deposit_amount
       /\ (SavePayment(w) /\ r.op = "refund_deposit"
              /\ r.pre.status \in {"deposit_captured", "fully_captured"})
            => IF r.out = "success"
               THEN /\ payment'[r.b].status = "deposit_refunded"
                    /\ payment'[r.b].refunded_at = SET
                    /\ payment'[r.b].notes = "Deposit refunded"
               ELSE payment'[r.b].status = r.pre.status]_vars

\* C22 witness: a fully captured Payment was refunded: one refund of the
\* deposit amount at the gateway, and the row says deposit_refunded.
C22_Witness ==
  /\ last = [op |-> "refund_deposit", status |-> "fully_captured", out |-> "success"]
  /\ gw[1].refunds = 1
  /\ gw[1].refunded = payment[1].deposit_amount
  /\ gw[1].refunded < payment[1].remaining_amount
  /\ payment[1].status = "deposit_refunded"
  /\ payment[1].refunded_at = SET

\* C23: a verified 'payment_intent.succeeded' event for a Payment advances it
\* to deposit_captured when it is pending and changes nothing in any other
\* status; a second delivery of the event to the row the first one left
\* changes nothing, and no other Payment is touched.
C23_SucceededEventIsIdempotent ==
  [][\A b \in BookingIds :
       LET e == "payment_intent.succeeded"
           again == IF webhook_saves(e, payment'[b])
                    THEN webhook_apply(e, payment'[b]) ELSE payment'[b]
       IN (payment[b] # NoRow /\ StripeWebhook(TRUE, TRUE, b, e))
          => /\ payment'[b] = IF payment[b].status = "pending"
                              THEN [payment[b] EXCEPT !.status = "deposit_captured"]
                              ELSE payment[b]
             /\ again = payment'[b]
             /\ \A c \in BookingIds \ {b} : payment'[c] = payment[c]
             /\ booking' = booking]_vars

\* C23 witness: the event has advanced a pending Payment (the row is
\* deposit_captured without the stamp capture_deposit would have written)
\* and no request is in progress.
C23_Witness ==
  /\ payment[1] # NoRow
  /\ payment[1].status = "deposit_captured"
  /\ payment[1].deposit_captured_at = NULL
  /\ req["w1"].pc = "idle"
  /\ gw[1].calls = 0

\* C24: a webhook request whose payload does not parse or whose signature
\* does not verify is answered 400 and changes no Payment and no
\* reservation; a verified event whose intent id matches no Payment is
\* answered 200 and changes no Payment either.
C24_UnverifiedOrUnknownChangesNothing ==
  [][\A t \in WebhookTargets, e \in EventTypes :
       /\ \A payload_ok, signature_ok \in BOOLEAN :
            (~(payload_ok /\ signature_ok)
               /\ StripeWebhook(payload_ok, signature_ok, t, e))
            => /\ payment' = payment
               /\ booking' = booking
               /\ last'.out = "400"
       /\ (~intent_matches(t) /\ StripeWebhook(TRUE, TRUE, t, e))
            => /\ payment' = payment
               /\ booking' = booking
               /\ last'.out = "200"]_vars

\* C24 witness: a webhook request was just answered 400 while a pending
\* Payment, which a verified event would have changed, is stored.
C24_Witness ==
  /\ last = WebhookResponse("400")
  /\ payment[1] # NoRow
  /\ payment[1].status = "pending"

\* C25: once a reservation is cancelled, the slots of its time block are not
\* among the unavailable slots of its date on its account, in the state where
\* it is cancelled and after any step taken from there: a slot of its block
\* that is unavailable is covered by another reservation.
C25_CancelledSlotStaysFree ==
  [][\A b \in BookingIds :
       (booking[b] # NoRow /\ booking[b].status = "cancelled")
       => \A t \in slots_of(booking[b]) :
            /\ t \in unavailable_slots(booking[b].booking_date)
                 => \E c \in existing_bookings \ {b} : t \in slots_of(booking[c])
            /\ t \in unavailable_slots(booking[b].booking_date)'
                 => \E c \in existing_bookings' \ {b} : t \in slots_of(booking'[c])]_vars

\* C26: mark_no_show acts on a pending or confirmed reservation and writes
\* its status only: every other column of the row, every other reservation,
\* every Payment (status and amounts) and the gateway's ledger are as before.
C26_NoShowKeepsPayment ==
  [][\A b \in BookingIds :
       MarkNoShow(b)
       => /\ booking[b].status \in {"pending", "confirmed"}
          /\ booking' = [booking EXCEPT ![b].status = "no_show"]
          /\ payment' = payment
          /\ gw' = gw]_vars

\* C26 witness: a reservation whose deposit was captured is a no-show; the
\* Payment still says deposit_captured and the gateway has made one capture
\* and neither a refund nor a release.
C26_Witness ==
  /\ booking[1].status = "no_show"
  /\ payment[1] # NoRow
  /\ payment[1].status = "deposit_captured"
  /\ payment[1].deposit_amount = STRIPE_DEPOSIT_AMOUNT
  /\ gw[1].captures = 1
  /\ gw[1].refunds = 0
  /\ gw[1].cancels = 0

\* C27: confirm_payment confirms the reservation (status confirmed,
\* is_confirmed true) when capture_deposit returned success, whatever the
\* confirmation notifications then do, and leaves the reservation as it was
\* when the capture failed; no other step of the customer's requests or of
\* the webhook confirms a reservation.
C27_ConfirmedOnlyAfterCapture ==
  [][/\ \A w \in Workers :
          (SavePayment(w) /\ req[w].op = "confirm_payment")
          => IF req[w].out = "success"
             THEN /\ booking'[req[w].b].status = "confirmed"
                  /\ booking'[req[w].b].is_confirmed
             ELSE booking' = booking
     /\ \A b \in BookingIds :
          (/\ booking[b] # NoRow
           /\ booking'[b] # NoRow
           /\ \/ ~booking[b].is_confirmed /\ booking'[b].is_confirmed
              \/ booking[b].status # "confirmed" /\ booking'[b].status = "confirmed")
          => \E w \in Workers :
               /\ SavePayment(w)
               /\ req[w].b = b
               /\ req[w].op = "confirm_payment"
               /\ req[w].out = "success"
               /\ gw[b].captures >= 1]_vars

\* C27 witness: confirm_payment has just returned success for a pending
\* Payment and the reservation is confirmed.
C27_Witness ==
  /\ last = [op |-> "confirm_payment", status |-> "pending", out |-> "success"]
  /\ booking[1].status = "confirmed"
  /\ booking[1].is_confirmed
  /\ gw[1].captures = 1

\* C28: the total_price of a stored reservation is never changed by a later
\* save, whatever price the offering has by then.
C28_TotalPriceSetOnce ==
  [][\A b \in BookingIds :
       booking[b] # NoRow => booking'[b].total_price = booking[b].total_price]_vars

\* C29: the end time of a stored reservation is never changed by a later
\* save, whatever duration the offering has by then.
C29_EndTimeWriteOnce ==
  [][\A b \in BookingIds :
       booking[b] # NoRow
       => booking'[b].booking_end_time = booking[b].booking_end_time]_vars

\* C30: a step that makes a reservation cancelled (cancel_booking, or
\* cancel_authorization on its Payment) writes cancelled_at and a non-empty
\* cancellation_reason in the same step, and every cancelled reservation
\* these steps lead to has both.
C30_CancelledIsStampedWithReason ==
  [][\A b \in BookingIds :
       (booking'[b] # NoRow /\ booking'[b].status = "cancelled")
       => /\ booking'[b].cancelled_at = SET
          /\ booking'[b].cancellation_reason # ""]_vars

\* C30 witness: cancel_authorization on the Payment released the hold and
\* cancelled the reservation with its own reason.
C30_Witness ==
  /\ booking[1].status = "cancelled"
  /\ booking[1].cancelled_at = SET
  /\ booking[1].cancellation_reason = "Payment authorization cancelled by admin"
  /\ payment[1] # NoRow
  /\ payment[1].status = "cancelled"
  /\ gw[1].cancels = 1

\* C31: for every date, the unavailable start times are exactly the times
\* start + 30k with start <= t < end + 30 minutes of the reservations of that
\* date that are not cancelled; a reservation from 10:00 to 11:00 makes 10:00,
\* 10:30 and 11:00 unavailable, and 11:30 is unavailable only when another
\* reservation covers it.
C31_UnavailableSlotsAreBufferedBlocks ==
  \A date \in InputDates :
    LET live == {b \in BookingIds : /\ booking[b] # NoRow
                                    /\ booking[b].status # "cancelled"
                                    /\ booking[b].booking_date = date}
        block(b) ==
          {t \in {booking[b].booking_time + SlotStep * k : k \in 0..(MinutesPerDay \div SlotStep)} :
             booking[b].booking_time <= t /\ t < booking[b].booking_end_time + CommuteBuffer}
        unavailable == unavailable_slots(date)
    IN /\ unavailable = UNION {block(b) : b \in live}
       /\ \A b \in live :
            (booking[b].booking_time = 600 /\ booking[b].booking_end_time = 660)
            => /\ {600, 630, 660} \subseteq unavailable
               /\ 690 \in unavailable => \E c \in live \ {b} : 690 \in block(c)

\* C31 witness: a 10:00 to 11:00 reservation is the only live one of date 1
\* beside a cancelled one, and 11:30 is available.
C31_Witness ==
  /\ booking[1] # NoRow
  /\ booking[1].booking_date = 1
  /\ booking[1].booking_time = 600
  /\ booking[1].booking_end_time = 660
  /\ booking[1].status = "pending"
  /\ booking[2] # NoRow
  /\ booking[2].booking_date = 1
  /\ booking[2].status = "cancelled"
  /\ unavailable_slots(1) = {600, 630, 660}

\* C32: after every step, a reservation whose status is confirmed has a
\* Payment whose status is not pending, and no step takes a Payment that has
\* left pending back to it.
C32_ConfirmedHasCapturedPayment ==
  [][\A b \in BookingIds :
       /\ (booking'[b] # NoRow /\ booking'[b].status = "confirmed")
            => (payment'[b] # NoRow /\ payment'[b].status # "pending")
       /\ (payment[b] # NoRow /\ payment[b].status # "pending")
            => (payment'[b] # NoRow /\ payment'[b].status # "pending")]_vars

\* C32 witness: the reservation is confirmed and its Payment, captured by
\* confirm_payment, has since been marked failed by the webhook.
C32_Witness ==
  /\ booking[1].status = "confirmed"
  /\ booking[1].is_confirmed
  /\ payment[1] # NoRow
  /\ payment[1].status = "failed"
  /\ payment[1].deposit_captured_at = SET

\* C33: a Payment whose status is deposit_captured has deposit_captured_at,
\* one that is fully_captured has fully_captured_at, and one that is
\* deposit_refunded has refunded_at.
C33_StatusHasItsStamp ==
  \A b \in BookingIds :
    payment[b] # NoRow
    => /\ payment[b].status = "deposit_captured" => payment[b].deposit_captured_at = SET
       /\ payment[b].status = "fully_captured" => payment[b].fully_captured_at = SET
       /\ payment[b].status = "deposit_refunded" => payment[b].refunded_at = SET

\* C34: no reminder is delivered for a reservation whose status is
\* cancelled, completed or no_show, and no sweep takes such a reservation
\* into the rows it will visit.
C34_NoReminderAfterFinalStatus ==
  [][/\ \A b \in BookingIds :
          reminders'[b] > reminders[b]
          => booking[b].status \notin {"cancelled", "completed", "no_show"}
     /\ \A s \in DOMAIN sweep' :
          \A i \in 1..Len(sweep'[s].todo) :
            sweep'[s].todo[i].row.status \notin {"cancelled", "completed", "no_show"}]_vars

\* C35: when no create_payment_intent request is between its gateway calls
\* and its insert, the payment intents opened for a reservation are as many
\* as its Payment rows (one or none), and so are the gateway customers.
C35_EveryIntentHasItsPayment ==
  \A b \in BookingIds :
    PendingCreates(b) = 0
    => /\ gw[b].intents = (IF payment[b] # NoRow THEN 1 ELSE 0)
       /\ gw[b].customers = gw[b].intents

\* C36: the total_amount of a Payment equals the total_price stored on its
\* reservation, whatever the offering's price was when the payment intent
\* was created.
C36_PaymentTotalIsBookingPrice ==
  \A b \in BookingIds :
    (payment[b] # NoRow /\ booking[b] # NoRow)
    => payment[b].total_amount = booking[b].total_price

\* C37: when no admin action and no sweep is between its steps, a Payment
\* whose status is cancelled belongs to a reservation that is cancelled or
\* completed.
C37_ReleasedPaymentHasClosedBooking ==
  \A b \in BookingIds :
    (/\ payment[b] # NoRow
     /\ payment[b].status = "cancelled"
     /\ \A a \in DOMAIN breq : breq[a].pc = "idle"
     /\ \A s \in DOMAIN sweep : sweep[s].pc = "idle")
    => booking[b].status \in {"cancelled", "completed"}

\* C38: for every Payment the gateway has accepted at most one deposit
\* refund, and the amount refunded is at most the Payment's deposit_amount.
C38_AtMostOneRefund ==
  \A b \in BookingIds :
    payment[b] # NoRow
    => /\ gw[b].refunds <= 1
       /\ gw[b].refunded <= payment[b].deposit_amount

\* C39: with the task run every 5 minutes and a notifier that succeeds, a
\* reservation that is confirmed and not yet reminded 35 minutes or more
\* before its start is eventually sent a reminder, by a sweep that began 25 to
\* 35 minutes before the start, and is flagged as reminded.
C39_ScheduledSweepReminds ==
  \A b \in BookingIds :
    (/\ booking[b].is_confirmed
     /\ ~booking[b].reminder_sent
     /\ now <= booking_datetime(booking[b]) - LeadMax)
    ~> (/\ reminders[b] = 1
        /\ booking[b].reminder_sent
        /\ now >= booking_datetime(booking[b]) - LeadMax)

\* A reservation reminded by the sweep that began exactly 35 minutes before
\* its start, the next sweep being the one that began 30 minutes before it.
C39_Witness ==
  \E b \in BookingIds :
    /\ reminders[b] = 1
    /\ booking[b].reminder_sent
    /\ sweep["s1"].pc = "loop"
    /\ sweep["s1"].at = booking_datetime(booking[b]) - LeadMax + SchedulePeriod
    /\ sweep["s1"].todo = <<>>
    /\ booking[b].booking_time = LastAppointment

\* C40: a.overlaps_with(b) equals b.overlaps_with(a); it is false for
\* reservations on different dates; and for two reservations on one date that
\* each end later than they start it is true exactly when
\* a.start < b.end and b.start < a.end.
C40_OverlapsWithIsHalfOpenTest ==
  req.self # 0
  => LET a == booking[req.self]
         b == booking[req.other]
     IN /\ req.result = overlaps_with(b, a)
        /\ a.booking_date # b.booking_date => ~req.result
        /\ (/\ a.booking_date = b.booking_date
            /\ a.booking_end_time > a.booking_time
            /\ b.booking_end_time > b.booking_time)
           => (req.result <=> /\ a.booking_time < b.booking_end_time
                              /\ b.booking_time < a.booking_end_time)

\* Two different reservations of one date that start at the same time and end
\* at different times, found to overlap.
C40_Witness ==
  /\ req.self # 0
  /\ req.self # req.other
  /\ req.result
  /\ booking[req.self].booking_date = booking[req.other].booking_date
  /\ booking[req.self].booking_time = booking[req.other].booking_time
  /\ booking[req.self].booking_end_time > booking[req.other].booking_end_time
  /\ booking[req.other].booking_end_time > booking[req.other].booking_time

\* ------------------------------------------------------ booking specifications

InitBook ==
  /\ booking = [b \in BookingIds |-> NoRow]
  /\ payment = [b \in BookingIds |-> NoRow]
  /\ gw = [b \in BookingIds |-> NoGateway]
  /\ req = <<>>
  /\ breq = [w \in FormWorkers |-> IdleForm]
  /\ sweep = <<>>
  /\ now = 0
  /\ reminders = [b \in BookingIds |-> 0]
  /\ last = NoRequest

NextBook ==
  \/ \E s \in InputServices, d \in InputDates, t \in InputTimes, a \in BOOLEAN :
       BookingPost("f1", s, d, t, a)
  \/ \E b \in BookingIds : CancelUnpaidBooking(b)

SpecBook == InitBook /\ [][NextBook]_vars

\* The same view with two POSTs in flight at once.
NextBookRace ==
  \/ \E w \in FormWorkers, s \in InputServices, d \in InputDates, t \in InputTimes, a \in BOOLEAN :
       BookingValidate(w, s, d, t, a)
  \/ \E w \in FormWorkers : BookingSave(w)
  \/ \E b \in BookingIds : CancelUnpaidBooking(b)

SpecBookRace == InitBook /\ [][NextBookRace]_vars

====
